---- MODULE Spec2Model ----
(***************************************************************************)
(* ADC_RTApp_MT3620_BareMetal: the exception vector table, the reset       *)
(* handler RTCoreMain with its sample-and-report loop, and the register /  *)
(* interrupt-control helpers of mt3620-baremetal.h.                        *)
(*                                                                         *)
(* Representation.  A 32-bit register word that is used as a bit field is  *)
(* the set of its set bit positions (a subset of 0..31), so that |= is set *)
(* union and &= ~ is set difference.  A register bank is a function from   *)
(* byte offsets to values; a bank of byte registers and the vector table   *)
(* are arrays, kept as sequences: the element at C index i is at position  *)
(* i + 1.  A character string sent to the UART is a sequence of            *)
(* one-character strings.                                                  *)
(***************************************************************************)
EXTENDS Integers, Sequences, FiniteSets, TLC

VARIABLES
    \* ---- the firmware image and RTCoreMain
    pc,           \* position of RTCoreMain
    scb,          \* System Control Block registers, byte offset -> value
    vectorTable,  \* contents of the .vector_table section: slot s at position s + 1
    tableAddr,    \* &ExceptionVectorTable, as placed by the linker
    uartInit,     \* Uart_Init() has run
    adcEnabled,   \* EnableAdc() has run
    uartTx,       \* characters sent since the latest Gpt3_WaitUs began
    nWait,        \* Gpt3_WaitUs calls of the current loop iteration
    waitUs,       \* argument of the latest Gpt3_WaitUs
    nRead,        \* ReadAdc calls of the current loop iteration
    channel,      \* argument of the latest ReadAdc
    value,        \* loop local: uint32_t value
    mV,           \* loop local: uint32_t mV
    \* ---- build-time layout of EXCEPTION_VECTOR_TABLE
    intCount,     \* the INTERRUPT_COUNT the image is built with
    layout,       \* what the compiler computed, once built
    \* ---- BASEPRI critical sections and read-modify-write
    basepri,      \* the BASEPRI special register
    m0,           \* BASEPRI before the main line's first BlockIrqs
    tokens,       \* main line: tokens of the open BlockIrqs calls, outermost first
    mpc,          \* main line: position inside a helper
    prevBasePri,  \* BlockIrqs local
    rmw,          \* the latest SetReg32/ClearReg32: op, bits, local value
    reg,          \* a peripheral register bank, byte offset -> bit set
    ideal,        \* reg as it would be if every read-modify-write were atomic
    maxDepth,     \* deepest nesting of BlockIrqs so far
    irqLog,       \* handlers that ran while a read-modify-write was in progress
    nOps,         \* main-line register operations started
    nIrqs,        \* interrupt handlers run
    \* ---- NVIC enable and priority banks
    iser,         \* NVIC_ISER bank, byte offset -> bit set
    ipr,          \* NVIC_IPR bank: the byte at offset o at position o + 1
    nvicCall      \* the NVIC helper call made, and the banks before it

firmwareVars == <<pc, scb, vectorTable, tableAddr, uartInit, adcEnabled, uartTx,
                  nWait, waitUs, nRead, channel, value, mV>>
layoutVars == <<intCount, layout>>
irqVars == <<basepri, m0, tokens, mpc, prevBasePri, rmw, reg, ideal, maxDepth,
             irqLog, nOps, nIrqs>>
nvicVars == <<iser, ipr, nvicCall>>
vars == <<firmwareVars, layoutVars, irqVars, nvicVars>>

(***************************************************************************)
(* Bounds of the model.                                                    *)
(***************************************************************************)
MaxInterruptCount == 130  \* layouts are computed for INTERRUPT_COUNT in 0..this
MaxTablePlacements == 2   \* linker placements of the table that are tried
MaxNest == 2              \* nesting depth of BlockIrqs
MaxBasePri == 2           \* prior BASEPRI values 0..this
MaxOps == 1               \* main-line read-modify-writes per run
MaxIrqs == 1              \* interrupt handler runs per run

(***************************************************************************)
(* Program constants.                                                      *)
(***************************************************************************)
INTERRUPT_COUNT == 100
PointerSize == 4          \* sizeof(uintptr_t) on the 32-bit core
IRQ_PRIORITY_BITS == 3
VTOR_OFFSET == 8          \* 0x08
MinTableAlignment == 128
AdcReferenceMilliVolts == 2500
AdcFullScale == 4095      \* 0xFFF
WaitPeriodUs == 1000000   \* 1000 * 1000
AdcChannel == 0
FractionWidth == 3

(***************************************************************************)
(* Register access primitives.                                             *)
(***************************************************************************)
WriteReg8(bank, offset, val) == [bank EXCEPT ![offset + 1] = val]

WriteReg32(bank, offset, val) == [bank EXCEPT ![offset] = val]

ReadReg32(bank, offset) == bank[offset]

ClearReg32(bank, offset, clearBits) ==
    LET v0 == ReadReg32(bank, offset)
        v1 == v0 \ clearBits
    IN  WriteReg32(bank, offset, v1)

SetReg32_Overwrite(bank, offset, setBits) == WriteReg32(bank, offset, setBits)

SetReg32(bank, offset, setBits) ==
    LET v0 == ReadReg32(bank, offset)
        v1 == v0 \cup setBits
    IN  WriteReg32(bank, offset, v1)

(***************************************************************************)
(* POW2_CEIL.  The macro is one chain of comparisons, largest threshold    *)
(* first; the first row whose threshold the argument exceeds gives the     *)
(* result, and the chain ends in 0x01.  The rows below are the chain from  *)
(* the threshold 0x20000000 down (lines 195-225).  Every argument the      *)
(* model passes is below 0x20000000, so the rows above (thresholds         *)
(* 0x40000000 .. 0x8000000000000000) are never the ones taken.             *)
(***************************************************************************)
Pow2CeilRows == <<
    <<\h20000000, \h40000000>>,
    <<\h10000000, \h20000000>>,
    <<\h08000000, \h10000000>>,
    <<\h04000000, \h08000000>>,
    <<\h02000000, \h04000000>>,
    <<\h01000000, \h02000000>>,
    <<\h00800000, \h01000000>>,
    <<\h00400000, \h00800000>>,
    <<\h00200000, \h00400000>>,
    <<\h00100000, \h00200000>>,
    <<\h00080000, \h00100000>>,
    <<\h00040000, \h00080000>>,
    <<\h00020000, \h00040000>>,
    <<\h00010000, \h00020000>>,
    <<\h00008000, \h00010000>>,
    <<\h00004000, \h00008000>>,
    <<\h00002000, \h00004000>>,
    <<\h00001000, \h00002000>>,
    <<\h00000800, \h00001000>>,
    <<\h00000400, \h00000800>>,
    <<\h00000200, \h00000400>>,
    <<\h00000100, \h00000200>>,
    <<\h00000080, \h00000100>>,
    <<\h00000040, \h00000080>>,
    <<\h00000020, \h00000040>>,
    <<\h00000010, \h00000020>>,
    <<\h00000008, \h00000010>>,
    <<\h00000004, \h00000008>>,
    <<\h00000002, \h00000004>>,
    <<\h00000001, \h00000002>>
>>

RECURSIVE Pow2CeilFromGe(_, _)
Pow2CeilFromGe(x, i) ==
    IF i > Len(Pow2CeilRows) THEN 1
    ELSE IF x >= Pow2CeilRows[i][1] THEN Pow2CeilRows[i][2]
    ELSE Pow2CeilFromGe(x, i + 1)

RECURSIVE Pow2CeilFrom(_, _)
Pow2CeilFrom(x, i) ==
    IF i > Len(Pow2CeilRows) THEN 1
    ELSE IF x > Pow2CeilRows[i][1] THEN Pow2CeilRows[i][2]
    ELSE Pow2CeilFrom(x, i + 1)

POW2_CEIL_Ge(x) == Pow2CeilFromGe(x, 1)

POW2_CEIL(x) == Pow2CeilFrom(x, 1)

(***************************************************************************)
(* Layout of EXCEPTION_VECTOR_TABLE, for an image built with n interrupts. *)
(***************************************************************************)
EXCEPTION_COUNT(n) == 16 + n

INT_TO_EXC(i) == 16 + i

EXCEPTION_TABLE_EXPECTED_SIZE(n) == EXCEPTION_COUNT(n) * PointerSize

EXCEPTION_TABLE_ALIGNMENT(n) ==
    IF POW2_CEIL(EXCEPTION_TABLE_EXPECTED_SIZE(n)) < MinTableAlignment
    THEN MinTableAlignment
    ELSE POW2_CEIL(EXCEPTION_TABLE_EXPECTED_SIZE(n))

\* sizeof of a struct: the members' bytes, padded to a multiple of the
\* struct's alignment.
SizeofStruct_Unpadded(memberBytes, alignment) == memberBytes

SizeofStruct(memberBytes, alignment) ==
    ((memberBytes + alignment - 1) \div alignment) * alignment

\* typedef struct { uintptr_t v[EXCEPTION_COUNT]; } aligned(EXCEPTION_TABLE_ALIGNMENT)
SizeofExceptionVectorTable(n) ==
    SizeofStruct(EXCEPTION_COUNT(n) * PointerSize, EXCEPTION_TABLE_ALIGNMENT(n))

\* LOCAL_C_ASSERT(sizeof(EXCEPTION_VECTOR_TABLE) == EXCEPTION_TABLE_ALIGNMENT):
\* the two sides of the comparison, and its outcome.
CAssertOperands(n) ==
    [lhs |-> SizeofExceptionVectorTable(n), rhs |-> EXCEPTION_TABLE_ALIGNMENT(n)]

LOCAL_C_ASSERT(e) == IF e THEN 1 ELSE -1

\* What the compiler computes for an image built with n interrupts.
LayoutOf(n) ==
    [built |-> TRUE,
     arrayBytes |-> EXCEPTION_COUNT(n) * PointerSize,
     expectedSize |-> EXCEPTION_TABLE_EXPECTED_SIZE(n),
     pow2 |-> POW2_CEIL(EXCEPTION_TABLE_EXPECTED_SIZE(n)),
     alignment |-> EXCEPTION_TABLE_ALIGNMENT(n),
     sizeof |-> SizeofExceptionVectorTable(n),
     assertLhs |-> CAssertOperands(n).lhs,
     assertRhs |-> CAssertOperands(n).rhs,
     assertArray |-> LOCAL_C_ASSERT(CAssertOperands(n).lhs = CAssertOperands(n).rhs)]

NoLayout ==
    [built |-> FALSE, arrayBytes |-> 0, expectedSize |-> 0, pow2 |-> 0,
     alignment |-> 0, sizeof |-> 0, assertLhs |-> 0, assertRhs |-> 0,
     assertArray |-> 0]

\* The compiler lays the table type out and evaluates the assertion.
BuildLayout ==
    /\ layout.built = FALSE
    /\ layout' = LayoutOf(intCount)
    /\ UNCHANGED <<intCount, firmwareVars, irqVars, nvicVars>>

(***************************************************************************)
(* The exception vector table: a zero-filled array on which the designated *)
(* initializers are applied in the order written.                          *)
(***************************************************************************)
\* The entries, as addresses: &StackTop, RTCoreMain, DefaultExceptionHandler, 0.
StackTop == "SP"

RTCoreMain == "RST"

DefaultExceptionHandler == "DEF"

NullEntry == "0"

\* .v[d.from ... d.to] = d.entry
ApplyDesignator(tbl, d) ==
    [p \in DOMAIN tbl |->
        IF d.from <= p - 1 /\ p - 1 <= d.to THEN d.entry ELSE tbl[p]]

RECURSIVE ApplyDesignators(_, _)
ApplyDesignators(tbl, ds) ==
    IF ds = <<>> THEN tbl
    ELSE ApplyDesignators(ApplyDesignator(tbl, Head(ds)), Tail(ds))

Designator(a, b, e) == [from |-> a, to |-> b, entry |-> e]

TableDesignators_FillReserved ==
    << Designator(0, 0, StackTop),
       Designator(1, 1, RTCoreMain),
       Designator(2, INT_TO_EXC(INTERRUPT_COUNT - 1), DefaultExceptionHandler) >>

TableDesignators ==
    << Designator(0, 0, StackTop),                    \* Main Stack Pointer (MSP)
       Designator(1, 1, RTCoreMain),                  \* Reset
       Designator(2, 2, DefaultExceptionHandler),     \* NMI
       Designator(3, 3, DefaultExceptionHandler),     \* HardFault
       Designator(4, 4, DefaultExceptionHandler),     \* MPU Fault
       Designator(5, 5, DefaultExceptionHandler),     \* Bus Fault
       Designator(6, 6, DefaultExceptionHandler),     \* Usage Fault
       Designator(11, 11, DefaultExceptionHandler),   \* SVCall
       Designator(12, 12, DefaultExceptionHandler),   \* Debug monitor
       Designator(14, 14, DefaultExceptionHandler),   \* PendSV
       Designator(15, 15, DefaultExceptionHandler),   \* SysTick
       Designator(INT_TO_EXC(0), INT_TO_EXC(INTERRUPT_COUNT - 1),
                  DefaultExceptionHandler) >>

ExceptionVectorTable ==
    ApplyDesignators([p \in 1 .. EXCEPTION_COUNT(INTERRUPT_COUNT) |-> NullEntry],
                     TableDesignators)

(***************************************************************************)
(* The serial, timer and ADC collaborators, as RTCoreMain consumes them.   *)
(***************************************************************************)
DigitChars == <<"0", "1", "2", "3", "4", "5", "6", "7", "8", "9">>

RECURSIVE DecimalDigits(_)
DecimalDigits(n) ==
    IF n < 10 THEN <<DigitChars[n + 1]>>
    ELSE Append(DecimalDigits(n \div 10), DigitChars[(n % 10) + 1])

RECURSIVE ZeroPad(_, _)
ZeroPad(s, width) == IF Len(s) >= width THEN s ELSE ZeroPad(<<"0">> \o s, width)

\* Uart_WriteStringPoll(s): the characters of s, in order.
Uart_WriteStringPoll(tx, s) == tx \o s

\* Uart_WriteIntegerPoll(n): n in decimal.
Uart_WriteIntegerPoll(tx, n) == tx \o DecimalDigits(n)

\* Uart_WriteIntegerWidthPoll(n, width): n in decimal, zero-padded to width.
Uart_WriteIntegerWidthPoll(tx, n, width) == tx \o ZeroPad(DecimalDigits(n), width)

\* ReadAdc(channel): a raw 12-bit sample.
AdcSamples == 0 .. AdcFullScale

CRLF == <<"\r", "\n">>

BannerRule ==
    <<"-", "-", "-", "-", "-", "-", "-", "-", "-", "-", "-", "-", "-", "-", "-", "-",
      "-", "-", "-", "-", "-", "-", "-", "-", "-", "-", "-", "-", "-", "-", "-", "-">>
    \o CRLF

BannerName ==
    <<"A", "D", "C", "_", "R", "T", "A", "p", "p", "_", "M", "T", "3", "6", "2", "0",
      "_", "B", "a", "r", "e", "M", "e", "t", "a", "l">> \o CRLF

\* "App built on: " __DATE__ ", " __TIME__ "\r\n"; the date and the time are the
\* build's and are kept as two tokens.
BannerBuild ==
    <<"A", "p", "p", " ", "b", "u", "i", "l", "t", " ", "o", "n", ":", " ",
      "__DATE__", ",", " ", "__TIME__">> \o CRLF

(***************************************************************************)
(* RTCoreMain.                                                             *)
(***************************************************************************)
\* uint32_t mV = (value * 2500) / 0xFFF.  The product of a 12-bit sample and
\* 2500 is below 2^24, so the 32-bit multiplication never wraps.
MilliVolts_Div4096(raw) == (raw * AdcReferenceMilliVolts) \div (AdcFullScale + 1)

MilliVolts(raw) == (raw * AdcReferenceMilliVolts) \div AdcFullScale

NoLocal == -1   \* a loop local outside its lifetime

\* WriteReg32(SCB_BASE, 0x08, (uint32_t)&ExceptionVectorTable)
InstallVectorTable_WrongOffset ==
    /\ pc = "reset"
    /\ scb' = WriteReg32(scb, VTOR_OFFSET + 4, tableAddr)
    /\ pc' = "uart_init"
    /\ UNCHANGED <<vectorTable, tableAddr, uartInit, adcEnabled, uartTx, nWait,
                   waitUs, nRead, channel, value, mV>>
    /\ UNCHANGED <<layoutVars, irqVars, nvicVars>>

InstallVectorTable ==
    /\ pc = "reset"
    /\ scb' = WriteReg32(scb, VTOR_OFFSET, tableAddr)
    /\ pc' = "uart_init"
    /\ UNCHANGED <<vectorTable, tableAddr, uartInit, adcEnabled, uartTx, nWait,
                   waitUs, nRead, channel, value, mV>>
    /\ UNCHANGED <<layoutVars, irqVars, nvicVars>>

UartInit ==
    /\ pc = "uart_init"
    /\ uartInit' = TRUE
    /\ pc' = "banner_rule"
    /\ UNCHANGED <<scb, vectorTable, tableAddr, adcEnabled, uartTx, nWait,
                   waitUs, nRead, channel, value, mV>>
    /\ UNCHANGED <<layoutVars, irqVars, nvicVars>>

WriteBanner ==
    /\ \/ pc = "banner_rule" /\ uartTx' = Uart_WriteStringPoll(uartTx, BannerRule)
                             /\ pc' = "banner_name"
       \/ pc = "banner_name" /\ uartTx' = Uart_WriteStringPoll(uartTx, BannerName)
                             /\ pc' = "banner_build"
       \/ pc = "banner_build" /\ uartTx' = Uart_WriteStringPoll(uartTx, BannerBuild)
                              /\ pc' = "enable_adc"
    /\ UNCHANGED <<scb, vectorTable, tableAddr, uartInit, adcEnabled, nWait,
                   waitUs, nRead, channel, value, mV>>
    /\ UNCHANGED <<layoutVars, irqVars, nvicVars>>

EnableAdc ==
    /\ pc = "enable_adc"
    /\ adcEnabled' = TRUE
    /\ pc' = "wait"
    /\ UNCHANGED <<scb, vectorTable, tableAddr, uartInit, uartTx, nWait,
                   waitUs, nRead, channel, value, mV>>
    /\ UNCHANGED <<layoutVars, irqVars, nvicVars>>

\* for (;;): the statement that follows the last one of the body.
LoopBack_SkipWait == "read"

LoopBack == "wait"

\* Gpt3_WaitUs(1000 * 1000): blocks, then returns.  A new iteration begins.
Gpt3_WaitUs ==
    /\ pc = "wait"
    /\ nWait' = 1
    /\ waitUs' = WaitPeriodUs
    /\ nRead' = 0
    /\ uartTx' = <<>>
    /\ pc' = "read"
    /\ UNCHANGED <<scb, vectorTable, tableAddr, uartInit, adcEnabled, channel,
                   value, mV>>
    /\ UNCHANGED <<layoutVars, irqVars, nvicVars>>

\* uint32_t value = ReadAdc(0); uint32_t mV = (value * 2500) / 0xFFF;
ReadAdc ==
    /\ pc = "read"
    /\ \E raw \in AdcSamples :
          /\ value' = raw
          /\ mV' = MilliVolts(raw)
    /\ nRead' = nRead + 1
    /\ channel' = AdcChannel
    /\ pc' = "write_whole"
    /\ UNCHANGED <<scb, vectorTable, tableAddr, uartInit, adcEnabled, uartTx,
                   nWait, waitUs>>
    /\ UNCHANGED <<layoutVars, irqVars, nvicVars>>

WriteWhole ==
    /\ pc = "write_whole"
    /\ uartTx' = Uart_WriteIntegerPoll(uartTx, mV \div 1000)
    /\ pc' = "write_dot"
    /\ UNCHANGED <<scb, vectorTable, tableAddr, uartInit, adcEnabled, nWait,
                   waitUs, nRead, channel, value, mV>>
    /\ UNCHANGED <<layoutVars, irqVars, nvicVars>>

WriteDot ==
    /\ pc = "write_dot"
    /\ uartTx' = Uart_WriteStringPoll(uartTx, <<".">>)
    /\ pc' = "write_frac"
    /\ UNCHANGED <<scb, vectorTable, tableAddr, uartInit, adcEnabled, nWait,
                   waitUs, nRead, channel, value, mV>>
    /\ UNCHANGED <<layoutVars, irqVars, nvicVars>>

WriteFraction ==
    /\ pc = "write_frac"
    /\ uartTx' = Uart_WriteIntegerWidthPoll(uartTx, mV % 1000, FractionWidth)
    /\ pc' = "write_crlf"
    /\ UNCHANGED <<scb, vectorTable, tableAddr, uartInit, adcEnabled, nWait,
                   waitUs, nRead, channel, value, mV>>
    /\ UNCHANGED <<layoutVars, irqVars, nvicVars>>

\* The last statement of the body; value and mV end their lifetime.
WriteLineEnd ==
    /\ pc = "write_crlf"
    /\ uartTx' = Uart_WriteStringPoll(uartTx, CRLF)
    /\ value' = NoLocal
    /\ mV' = NoLocal
    /\ pc' = LoopBack
    /\ UNCHANGED <<scb, vectorTable, tableAddr, uartInit, adcEnabled, nWait,
                   waitUs, nRead, channel>>
    /\ UNCHANGED <<layoutVars, irqVars, nvicVars>>

(***************************************************************************)
(* State at reset.                                                         *)
(***************************************************************************)
ScbOffsets == {0, 4, 8, 12}

RegOffsets == {0}

IserOffsets == { 4 * w : w \in 0 .. ((INTERRUPT_COUNT - 1) \div 32) }

NoRmw == [op |-> "none", offset |-> 0, bits |-> {}, val |-> {}, inSection |-> FALSE,
          written |-> FALSE]

NoCall == [fn |-> "none", irqNum |-> 0, pri |-> 0, iserBefore |-> <<>>,
           iprBefore |-> <<>>]

ResetFirmware ==
    /\ pc = "reset"
    /\ scb = [o \in ScbOffsets |-> 0]
    /\ vectorTable = ExceptionVectorTable
    /\ uartInit = FALSE
    /\ adcEnabled = FALSE
    /\ uartTx = <<>>
    /\ nWait = 0
    /\ waitUs = 0
    /\ nRead = 0
    /\ channel = 0
    /\ value = NoLocal
    /\ mV = NoLocal

BuiltImage ==
    /\ intCount = INTERRUPT_COUNT
    /\ layout = LayoutOf(INTERRUPT_COUNT)
    /\ tableAddr \in { k * layout.alignment : k \in 1 .. MaxTablePlacements }

\* The built image at one placement, for the runs that do not start RTCoreMain.
PlacedImage ==
    /\ intCount = INTERRUPT_COUNT
    /\ layout = LayoutOf(INTERRUPT_COUNT)
    /\ tableAddr = layout.alignment

ResetIrqs ==
    /\ basepri = 0
    /\ m0 = 0
    /\ tokens = <<>>
    /\ mpc = "idle"
    /\ prevBasePri = 0
    /\ rmw = NoRmw
    /\ reg = [o \in RegOffsets |-> {}]
    /\ ideal = [o \in RegOffsets |-> {}]
    /\ maxDepth = 0
    /\ irqLog = {}
    /\ nOps = 0
    /\ nIrqs = 0

ResetNvic ==
    /\ iser = [o \in IserOffsets |-> {}]
    /\ ipr = [p \in 1 .. INTERRUPT_COUNT |-> 0]
    /\ nvicCall = NoCall

(***************************************************************************)
(* The firmware from reset.                                                *)
(***************************************************************************)
Init == ResetFirmware /\ BuiltImage /\ ResetIrqs /\ ResetNvic

Next ==
    \/ InstallVectorTable
    \/ UartInit
    \/ WriteBanner
    \/ EnableAdc
    \/ Gpt3_WaitUs
    \/ ReadAdc
    \/ WriteWhole
    \/ WriteDot
    \/ WriteFraction
    \/ WriteLineEnd

Spec == Init /\ [][Next]_vars

\* The core keeps executing and every collaborator call returns.
FairSpec == Spec /\ WF_vars(Next)

(***************************************************************************)
(* Reading a transmitted line back.                                        *)
(***************************************************************************)
IsDigit(c) == \E d \in 1 .. 10 : DigitChars[d] = c

DigitValue(c) == (CHOOSE d \in 1 .. 10 : DigitChars[d] = c) - 1

RECURSIVE DecimalValue(_)
DecimalValue(s) ==
    IF s = <<>> THEN 0
    ELSE 10 * DecimalValue(SubSeq(s, 1, Len(s) - 1)) + DigitValue(s[Len(s)])

AllDigits(s) == \A i \in 1 .. Len(s) : IsDigit(s[i])

\* <digits> "." <exactly 3 digits>
IsReading(s) ==
    /\ Len(s) >= 5
    /\ s[Len(s) - 3] = "."
    /\ AllDigits(SubSeq(s, 1, Len(s) - 4))
    /\ AllDigits(SubSeq(s, Len(s) - 2, Len(s)))

\* <digits> "." <exactly 3 digits> "\r" "\n"
IsResultLine(s) ==
    /\ Len(s) >= 7
    /\ IsReading(SubSeq(s, 1, Len(s) - 2))
    /\ SubSeq(s, Len(s) - 1, Len(s)) = <<"\r", "\n">>

InLoopBody == pc \in {"write_whole", "write_dot", "write_frac", "write_crlf"}

\* The conversion and the format of the reading, for every raw sample.
ReadingMatchesSample ==
    /\ InLoopBody =>
          /\ value \in 0 .. 4095
          /\ mV = (value * 2500) \div 4095
    /\ pc = "write_crlf" =>
          /\ IsReading(uartTx)
          /\ DecimalValue(SubSeq(uartTx, 1, Len(uartTx) - 4)) = mV \div 1000
          /\ DecimalValue(SubSeq(uartTx, Len(uartTx) - 2, Len(uartTx))) = mV % 1000
          /\ Len(uartTx) = 5
          /\ value = 4095 => mV = 2500 /\ uartTx = <<"2", ".", "5", "0", "0">>
          /\ value = 0 => mV = 0 /\ uartTx = <<"0", ".", "0", "0", "0">>

\* C3 as stated: for every raw sample in 0..0xFFF the loop computes
\* mV = (raw * 2500) / 0xFFF, truncating, and sends mV / 1000, ".", and
\* mV % 1000 zero-padded to 3 digits; 0xFFF is sent as "2.500", 0 as "0.000"
\* and 2048 gives 1249 mV, sent as "1.249".
C3_Original ==
    /\ ReadingMatchesSample
    /\ (pc = "write_crlf" /\ value = 2048) =>
          mV = 1249 /\ uartTx = <<"1", ".", "2", "4", "9">>

\* C3, amended: as above, except that the raw sample 2048 gives
\* (2048 * 2500) / 4095 = 1250 mV, sent as "1.250"; 1249 mV ("1.249") is what
\* the raw sample 2047 gives.
C3_MilliVoltReading ==
    /\ ReadingMatchesSample
    /\ (pc = "write_crlf" /\ value = 2048) =>
          mV = 1250 /\ uartTx = <<"1", ".", "2", "5", "0">>
    /\ (pc = "write_crlf" /\ value = 2047) =>
          mV = 1249 /\ uartTx = <<"1", ".", "2", "4", "9">>

C3_Witness ==
    /\ pc = "write_crlf"
    /\ value = 2048
    /\ uartTx = <<"1", ".", "2", "5", "0">>

\* C6: the write of the table's address to the vector-table-offset register
\* (SCB + 0x08) is the first thing RTCoreMain does: serial initialization,
\* every serial write, the ADC enable, every wait and every ADC read happen
\* with the register already holding the address, and no interrupt is enabled
\* before it.
C6_VtorFirst ==
    /\ pc = "reset" =>
          /\ scb = [o \in ScbOffsets |-> 0]
          /\ ~uartInit /\ ~adcEnabled /\ uartTx = <<>> /\ nWait = 0 /\ nRead = 0
    /\ pc # "reset" => scb[8] = tableAddr
    /\ (uartInit \/ adcEnabled \/ uartTx # <<>> \/ nWait > 0 \/ nRead > 0)
          => scb[8] = tableAddr
    /\ scb[8] # tableAddr => \A o \in DOMAIN iser : iser[o] = {}

C6_Witness ==
    /\ pc = "write_crlf"
    /\ scb[8] = tableAddr
    /\ uartInit /\ adcEnabled /\ nWait = 1 /\ nRead = 1

C7_IterationShape ==
    /\ pc \in {"reset", "uart_init", "banner_rule", "banner_name", "banner_build",
               "enable_adc"} => nWait = 0 /\ nRead = 0
    /\ pc = "wait" =>
          \/ nWait = 0 /\ nRead = 0
          \/ /\ nWait = 1 /\ waitUs = 1000000
             /\ nRead = 1 /\ channel = 0
             /\ IsResultLine(uartTx)
    /\ pc = "read" => nWait = 1 /\ waitUs = 1000000 /\ nRead = 0 /\ uartTx = <<>>
    /\ InLoopBody =>
          /\ nWait = 1 /\ waitUs = 1000000
          /\ nRead = 1 /\ channel = 0
          /\ \A i \in 1 .. Len(uartTx) : uartTx[i] # "\n"
    /\ nRead > 0 => nWait = 1

\* C7: once started the loop never ends, and every iteration, the first
\* included, makes exactly one wait of 1,000,000 microseconds, then exactly one
\* read of ADC channel 0, then sends exactly one line <digits>.<3 digits>\r\n,
\* before the next wait begins; there is no read and no line without the wait
\* of the same iteration before it.
C7_LoopCadence ==
    /\ [] C7_IterationShape
    /\ []<>(pc = "read")
    /\ [](pc = "read" => <>(pc = "wait" /\ nWait = 1 /\ IsResultLine(uartTx)))

C7_Witness ==
    /\ pc = "wait"
    /\ nWait = 1 /\ nRead = 1
    /\ IsResultLine(uartTx)

\* C8: the vector table never changes: slot 0 holds the top-of-stack address,
\* slot 1 (Reset) RTCoreMain, slots 2-6, 11, 12, 14, 15 and the 100 interrupt
\* slots 16..115 the one default handler, and the reserved slots 7, 8, 9, 10
\* and 13 are zero.
C8_TableContents ==
    LET slot(i) == vectorTable[i + 1]
    IN  /\ Len(vectorTable) = 116
        /\ slot(0) = StackTop
        /\ slot(1) = RTCoreMain
        /\ \A i \in {2, 3, 4, 5, 6, 11, 12, 14, 15} \cup (16 .. 115) :
              slot(i) = DefaultExceptionHandler
        /\ \A i \in {7, 8, 9, 10, 13} : slot(i) = "0"
        /\ Cardinality({StackTop, RTCoreMain, DefaultExceptionHandler, "0"}) = 4

C8_Witness ==
    /\ pc = "wait" /\ nWait = 1
    /\ scb[8] = tableAddr
    /\ vectorTable[13 + 1] = "0"
    /\ vectorTable[115 + 1] = DefaultExceptionHandler

(***************************************************************************)
(* Building and placing the table, for every interrupt count in range.     *)
(***************************************************************************)
\* The linker places the table at a multiple of the type's alignment.
PlaceTable ==
    /\ layout.built
    /\ tableAddr = 0
    /\ tableAddr' \in { k * layout.alignment : k \in 1 .. MaxTablePlacements }
    /\ UNCHANGED <<pc, scb, vectorTable, uartInit, adcEnabled, uartTx, nWait,
                   waitUs, nRead, channel, value, mV>>
    /\ UNCHANGED <<layoutVars, irqVars, nvicVars>>

LayoutInit ==
    /\ intCount \in 0 .. MaxInterruptCount
    /\ layout = NoLayout
    /\ tableAddr = 0
    /\ ResetFirmware /\ ResetIrqs /\ ResetNvic

LayoutNext == BuildLayout \/ PlaceTable

LayoutSpec == LayoutInit /\ [][LayoutNext]_vars

IsPowerOfTwo(x) == \E k \in 0 .. 30 : x = 2 ^ k

\* C1 as stated: the table type built with INTERRUPT_COUNT = 100 and 4-byte
\* pointers has byte size exactly (16 + 100) * 4 = 464, and the build-time
\* assertion compares the table's size with EXCEPTION_TABLE_EXPECTED_SIZE.
C1_Original ==
    (layout.built /\ intCount = 100) =>
        /\ layout.sizeof = (16 + 100) * 4
        /\ layout.assertLhs = layout.sizeof
        /\ layout.assertRhs = layout.expectedSize

\* C1, amended: the table's entry array occupies (16 + interrupt_count) * 4
\* bytes (464 for 100 interrupts), the table type itself is padded to its
\* alignment, so its size is the smallest multiple of EXCEPTION_TABLE_ALIGNMENT
\* that holds the array (512 for 100 interrupts), and the build-time assertion
\* compares the type's size with EXCEPTION_TABLE_ALIGNMENT, and passes.
C1_TableSize ==
    layout.built =>
        /\ layout.arrayBytes = (16 + intCount) * 4
        /\ layout.expectedSize = layout.arrayBytes
        /\ layout.sizeof % layout.alignment = 0
        /\ layout.sizeof >= layout.arrayBytes
        /\ layout.sizeof - layout.alignment < layout.arrayBytes
        /\ layout.assertLhs = layout.sizeof
        /\ layout.assertRhs = layout.alignment
        /\ layout.assertArray = 1
        /\ intCount = 100 =>
              /\ layout.arrayBytes = 464
              /\ layout.sizeof = 512
              /\ layout.assertRhs = 512

C1_Witness ==
    /\ layout.built
    /\ intCount = 100
    /\ layout.arrayBytes = 464
    /\ layout.sizeof = 512

\* C2: for every table byte size s = (16 + n) * 4, EXCEPTION_TABLE_ALIGNMENT is
\* max(128, P) with P = POW2_CEIL(s) the smallest power of two >= s; so the
\* alignment of the table's start address is a power of two that is >= 128 and
\* >= the table's byte size.
C2_Alignment ==
    layout.built =>
        LET s == (16 + intCount) * 4
            P == layout.pow2
        IN  /\ IsPowerOfTwo(P)
            /\ P >= s
            /\ P > 1 => P \div 2 < s
            /\ layout.alignment = IF P > 128 THEN P ELSE 128
            /\ IsPowerOfTwo(layout.alignment)
            /\ layout.alignment >= 128
            /\ layout.alignment >= s
            /\ tableAddr % layout.alignment = 0

C2_Witness ==
    /\ layout.built
    /\ intCount = 100
    /\ layout.pow2 = 512
    /\ layout.alignment = 512
    /\ tableAddr = 1024

(***************************************************************************)
(* NVIC helpers, each applied to a bank with some prior content.           *)
(***************************************************************************)
\* The conversion of an int to the uint8_t parameter of WriteReg8.
ToUint8(x) == x % 256

\* 1U << n, as a bit field.
Bit(n) == {n}

SetNvicPriority_ShiftByBits(bank, irqNum, pri) ==
    WriteReg8(bank, irqNum, ToUint8(pri * (2 ^ IRQ_PRIORITY_BITS)))

SetNvicPriority(bank, irqNum, pri) ==
    WriteReg8(bank, irqNum, ToUint8(pri * (2 ^ (8 - IRQ_PRIORITY_BITS))))

EnableNvicInterrupt(bank, irqNum) ==
    LET offset == 4 * (irqNum \div 32)
        mask == Bit(irqNum % 32)
    IN  SetReg32(bank, offset, mask)

IrqNumbers == 0 .. INTERRUPT_COUNT - 1

\* uint8_t pri
PriorityArguments == 0 .. 255

CallEnableNvicInterrupt ==
    /\ nvicCall.fn = "none"
    /\ \E irqNum \in IrqNumbers :
          /\ iser' = EnableNvicInterrupt(iser, irqNum)
          /\ nvicCall' = [fn |-> "EnableNvicInterrupt", irqNum |-> irqNum, pri |-> 0,
                          iserBefore |-> iser, iprBefore |-> ipr]
    /\ UNCHANGED <<ipr, firmwareVars, layoutVars, irqVars>>

CallSetNvicPriority ==
    /\ nvicCall.fn = "none"
    /\ \E irqNum \in IrqNumbers, pri \in PriorityArguments :
          /\ ipr' = SetNvicPriority(ipr, irqNum, pri)
          /\ nvicCall' = [fn |-> "SetNvicPriority", irqNum |-> irqNum, pri |-> pri,
                          iserBefore |-> iser, iprBefore |-> ipr]
    /\ UNCHANGED <<iser, firmwareVars, layoutVars, irqVars>>

\* Prior contents of the banks: the reset value, and others that set bits in
\* every word and give neighbouring interrupts different priorities.
IserContents ==
    { [o \in IserOffsets |-> {}],
      [o \in IserOffsets |-> {0, 7, 31}],
      [o \in IserOffsets |-> 0 .. 31],
      [o \in IserOffsets |-> IF o = 4 THEN {} ELSE {1, 5, 30}] }

IprContents ==
    { [p \in 1 .. INTERRUPT_COUNT |-> 0],
      [p \in 1 .. INTERRUPT_COUNT |-> ((p + 2) % 8) * 32] }

NvicInit ==
    /\ iser \in IserContents
    /\ ipr \in IprContents
    /\ nvicCall = NoCall
    /\ ResetFirmware /\ PlacedImage /\ ResetIrqs

NvicNext == CallEnableNvicInterrupt \/ CallSetNvicPriority

NvicSpec == NvicInit /\ [][NvicNext]_vars

\* C5: for every interrupt number i in [0, interrupt_count) and every prior
\* content of the enable bank, EnableNvicInterrupt(i) sets bit i % 32 of the
\* word at byte offset 4 * (i / 32) and leaves every other bit of that word and
\* every other word of the bank as it was.
C5_EnableSetsOneBit ==
    nvicCall.fn = "EnableNvicInterrupt" =>
        LET i == nvicCall.irqNum
        IN  /\ i \in 0 .. 99
            /\ \A o \in {0, 4, 8, 12} : \A b \in 0 .. 31 :
                  (b \in iser[o]) <=>
                     \/ (o = 4 * (i \div 32) /\ b = i % 32)
                     \/ b \in nvicCall.iserBefore[o]
            /\ DOMAIN iser = {0, 4, 8, 12}
            /\ ipr = nvicCall.iprBefore

C5_Witness ==
    /\ nvicCall.fn = "EnableNvicInterrupt"
    /\ nvicCall.irqNum = 37
    /\ nvicCall.iserBefore[4] = {0, 7, 31}
    /\ iser[4] = {0, 5, 7, 31}
    /\ iser[0] = {0, 7, 31}

\* The priority byte of interrupt i in a bank.
PriorityByte(bank, i) == bank[i + 1]

\* What C9 says of an in-range priority.
InRangePriorityStored ==
    (nvicCall.fn = "SetNvicPriority" /\ nvicCall.pri \in 0 .. 7) =>
        /\ PriorityByte(ipr, nvicCall.irqNum) = nvicCall.pri * 32
        /\ \A i \in 0 .. 99 :
              i # nvicCall.irqNum =>
                 PriorityByte(ipr, i) = PriorityByte(nvicCall.iprBefore, i)

\* C9 as stated: SetNvicPriority validates nothing; for pri in 0..7 it stores
\* pri * 32 in the priority byte of irq, and for pri in 8..255 priority bits
\* other than the 3-bit priority field of irq end up changed.
C9_Original ==
    /\ InRangePriorityStored
    /\ (nvicCall.fn = "SetNvicPriority" /\ nvicCall.pri \in 8 .. 255) =>
          \/ \E i \in 0 .. 99 :
                /\ i # nvicCall.irqNum
                /\ PriorityByte(ipr, i) # PriorityByte(nvicCall.iprBefore, i)
          \/ PriorityByte(ipr, nvicCall.irqNum) % 32
                # PriorityByte(nvicCall.iprBefore, nvicCall.irqNum) % 32

\* C9, amended: SetNvicPriority validates nothing and reports nothing; for pri
\* in 0..7 it stores pri * 32 in the priority byte of irq; for pri in 8..255
\* the shifted value is cut to 8 bits by the byte write, so the byte of irq
\* receives (pri mod 8) * 32, a wrong priority, and no other priority byte and
\* no bit below the 3-bit field changes.
C9_PriorityByte ==
    /\ InRangePriorityStored
    /\ nvicCall.fn = "SetNvicPriority" =>
          /\ Len(ipr) = 100
          /\ PriorityByte(ipr, nvicCall.irqNum) = (nvicCall.pri % 8) * 32
          /\ \A i \in 0 .. 99 :
                i # nvicCall.irqNum =>
                   PriorityByte(ipr, i) = PriorityByte(nvicCall.iprBefore, i)
          /\ iser = nvicCall.iserBefore

C9_Witness ==
    /\ nvicCall.fn = "SetNvicPriority"
    /\ nvicCall.irqNum = 10
    /\ nvicCall.pri = 9
    /\ PriorityByte(nvicCall.iprBefore, 10) = 160
    /\ PriorityByte(ipr, 10) = 32
    /\ PriorityByte(ipr, 9) = 128 /\ PriorityByte(ipr, 11) = 192

(***************************************************************************)
(* BASEPRI critical sections.  The main line opens and closes strictly     *)
(* nested BlockIrqs / RestoreIrqs pairs and does read-modify-writes of a   *)
(* register; interrupt handlers preempt it between any two of its          *)
(* instructions when BASEPRI lets their priority through, run to           *)
(* completion, and write the same registers.  The asm statements and the   *)
(* volatile accesses are taken in program order.                           *)
(***************************************************************************)
\* "Blocks interrupts at priority 1 level and above": with BASEPRI = b > 0 a
\* handler runs only if its priority number is below b; 0 masks nothing.
CanPreempt(pri) == basepri = 0 \/ pri < basepri

Priorities == 0 .. (2 ^ IRQ_PRIORITY_BITS) - 1

RegInitWords == {{}, {0, 1}}

RegMasks == {{0}, {1}}

\* value &= ~bits or value |= bits, on the local copy
Modify(op, val, bits) == IF op = "clear" THEN val \ bits ELSE val \cup bits

\* The whole helper, run without interruption.
Reg32(op, bank, offset, bits) ==
    IF op = "clear" THEN ClearReg32(bank, offset, bits) ELSE SetReg32(bank, offset, bits)

\* BlockIrqs: mrs %0, BASEPRI
BlockIrqs_mrs ==
    /\ mpc = "idle"
    /\ Len(tokens) < MaxNest
    /\ prevBasePri' = basepri
    /\ mpc' = "BlockIrqs_msr"
    /\ UNCHANGED <<basepri, m0, tokens, rmw, reg, ideal, maxDepth, irqLog, nOps, nIrqs>>
    /\ UNCHANGED <<firmwareVars, layoutVars, nvicVars>>

BlockIrqs_msr_Unmasked ==
    /\ mpc = "BlockIrqs_msr"
    /\ basepri' = 0
    /\ tokens' = Append(tokens, prevBasePri)
    /\ maxDepth' = IF Len(tokens') > maxDepth THEN Len(tokens') ELSE maxDepth
    /\ mpc' = "idle"
    /\ UNCHANGED <<m0, prevBasePri, rmw, reg, ideal, irqLog, nOps, nIrqs>>
    /\ UNCHANGED <<firmwareVars, layoutVars, nvicVars>>

\* BlockIrqs: msr BASEPRI, newBasePri; return prevBasePri
BlockIrqs_msr ==
    /\ mpc = "BlockIrqs_msr"
    /\ basepri' = 1
    /\ tokens' = Append(tokens, prevBasePri)
    /\ maxDepth' = IF Len(tokens') > maxDepth THEN Len(tokens') ELSE maxDepth
    /\ mpc' = "idle"
    /\ UNCHANGED <<m0, prevBasePri, rmw, reg, ideal, irqLog, nOps, nIrqs>>
    /\ UNCHANGED <<firmwareVars, layoutVars, nvicVars>>

RestoreIrqs_Unmask ==
    /\ mpc = "idle"
    /\ tokens # <<>>
    /\ basepri' = 0
    /\ tokens' = SubSeq(tokens, 1, Len(tokens) - 1)
    /\ UNCHANGED <<m0, mpc, prevBasePri, rmw, reg, ideal, maxDepth, irqLog, nOps, nIrqs>>
    /\ UNCHANGED <<firmwareVars, layoutVars, nvicVars>>

\* RestoreIrqs(token) with the token of the innermost open BlockIrqs
RestoreIrqs ==
    /\ mpc = "idle"
    /\ tokens # <<>>
    /\ basepri' = tokens[Len(tokens)]
    /\ tokens' = SubSeq(tokens, 1, Len(tokens) - 1)
    /\ UNCHANGED <<m0, mpc, prevBasePri, rmw, reg, ideal, maxDepth, irqLog, nOps, nIrqs>>
    /\ UNCHANGED <<firmwareVars, layoutVars, nvicVars>>

\* SetReg32 / ClearReg32: uint32_t value = ReadReg32(baseAddr, offset)
Reg32_Read ==
    /\ mpc = "idle"
    /\ nOps < MaxOps
    /\ \E op \in {"set", "clear"}, offset \in RegOffsets, bits \in RegMasks :
          rmw' = [op |-> op, offset |-> offset, bits |-> bits,
                  val |-> ReadReg32(reg, offset),
                  inSection |-> tokens # <<>>, written |-> FALSE]
    /\ nOps' = nOps + 1
    /\ mpc' = "Reg32_Write"
    /\ UNCHANGED <<basepri, m0, tokens, prevBasePri, reg, ideal, maxDepth, irqLog, nIrqs>>
    /\ UNCHANGED <<firmwareVars, layoutVars, nvicVars>>

\* SetReg32 / ClearReg32: value |= setBits (value &= ~clearBits);
\* WriteReg32(baseAddr, offset, value)
Reg32_Write ==
    /\ mpc = "Reg32_Write"
    /\ reg' = WriteReg32(reg, rmw.offset, Modify(rmw.op, rmw.val, rmw.bits))
    /\ ideal' = Reg32(rmw.op, ideal, rmw.offset, rmw.bits)
    /\ rmw' = [rmw EXCEPT !.written = TRUE]
    /\ mpc' = "idle"
    /\ UNCHANGED <<basepri, m0, tokens, prevBasePri, maxDepth, irqLog, nOps, nIrqs>>
    /\ UNCHANGED <<firmwareVars, layoutVars, nvicVars>>

\* Where the main line is when a handler preempts it.
Preempted ==
    IF mpc # "Reg32_Write" THEN "outside"
    ELSE IF tokens # <<>> THEN "in_section" ELSE "unprotected"

\* An interrupt handler of priority pri: a SetReg32 or ClearReg32 of its own.
IrqHandler ==
    /\ nIrqs < MaxIrqs
    /\ \E pri \in Priorities, op \in {"set", "clear"}, offset \in RegOffsets,
          bits \in RegMasks :
          /\ CanPreempt(pri)
          /\ reg' = Reg32(op, reg, offset, bits)
          /\ ideal' = Reg32(op, ideal, offset, bits)
          /\ irqLog' = irqLog \cup {[pri |-> pri, during |-> Preempted]}
    /\ nIrqs' = nIrqs + 1
    /\ UNCHANGED <<basepri, m0, tokens, mpc, prevBasePri, rmw, maxDepth, nOps>>
    /\ UNCHANGED <<firmwareVars, layoutVars, nvicVars>>

IrqInit ==
    /\ basepri \in 0 .. MaxBasePri
    /\ m0 = basepri
    /\ tokens = <<>>
    /\ mpc = "idle"
    /\ prevBasePri = 0
    /\ rmw = NoRmw
    /\ reg \in [RegOffsets -> RegInitWords]
    /\ ideal = reg
    /\ maxDepth = 0
    /\ irqLog = {}
    /\ nOps = 0
    /\ nIrqs = 0
    /\ ResetFirmware /\ PlacedImage /\ ResetNvic

IrqNext ==
    \/ BlockIrqs_mrs
    \/ BlockIrqs_msr
    \/ RestoreIrqs
    \/ Reg32_Read
    \/ Reg32_Write
    \/ IrqHandler

IrqSpec == IrqInit /\ [][IrqNext]_vars

\* C4: for any prior mask m, BlockIrqs followed by RestoreIrqs(token) leaves
\* the mask equal to m, and so do two strictly nested pairs once both restores
\* are done; from the first BlockIrqs until the outer RestoreIrqs the mask is 1.
C4_BlockRestore ==
    /\ tokens = <<>> => basepri = m0
    /\ tokens # <<>> =>
          /\ basepri = 1
          /\ tokens[1] = m0
          /\ \A k \in 2 .. Len(tokens) : tokens[k] = 1

C4_Witness ==
    /\ maxDepth = 2
    /\ tokens = <<>>
    /\ mpc = "idle"
    /\ m0 = 2
    /\ basepri = 2

\* C10: while the main line does SetReg32 or ClearReg32 between BlockIrqs and
\* the matching RestoreIrqs, no handler of priority 1 or above runs between the
\* read and the write, only priority 0 can; and when every handler that ran had
\* priority 1 or above and none met an unprotected read-modify-write, no update
\* is lost: the register holds what atomic operations would have left.
C10_SectionIsAtomic ==
    /\ \A e \in irqLog : e.during = "in_section" => e.pri = 0
    /\ (mpc = "Reg32_Write" /\ tokens # <<>>
        /\ \A e \in irqLog : e.during = "in_section" => e.pri >= 1)
          => rmw.val = reg[rmw.offset]
    /\ (mpc = "idle" /\ \A e \in irqLog : e.pri >= 1 /\ e.during # "unprotected")
          => reg = ideal

C10_Witness ==
    /\ mpc = "idle"
    /\ tokens = <<>>
    /\ rmw.written /\ rmw.inSection /\ rmw.op = "set" /\ rmw.bits = {0}
    /\ rmw.val = {}
    /\ irqLog = {[pri |-> 1, during |-> "outside"]}
    /\ reg = ideal
    /\ reg[0] = {0, 1}

\* Inside a section a priority-0 handler still preempts the read-modify-write,
\* and its update is then lost.
C10_PriorityZeroPreempts ==
    /\ mpc = "idle"
    /\ rmw.written /\ rmw.inSection
    /\ irqLog = {[pri |-> 0, during |-> "in_section"]}
    /\ reg # ideal

====
